---- MODULE Spec2Model ----
(***************************************************************************)
(* Ride booking and seat inventory of the rideshare backend: the Ride and  *)
(* Booking documents (backend/models), their save hooks, and the request   *)
(* handlers bookRide, cancelBooking, cancelRide, updateRideStatus and      *)
(* createRide (backend/controllers/rideController.js).                     *)
(*                                                                         *)
(* Every await of a handler on the document store is one step, so that     *)
(* requests interleave exactly at the store operations.  The model follows *)
(* one ride document.  Stored references are compared as identifiers; for   *)
(* populated references see PopulatedEquals.                                *)
(***************************************************************************)
EXTENDS Integers, Sequences, FiniteSets, TLC

VARIABLES
    ride,       \* the Ride document in the store
    bookings,   \* the Booking collection, indexed by booking id 1..Len
    hoursLeft,  \* hours until the ride's scheduled departure (negative: past)
    reqs,       \* the requests in flight, one per slot
    resp,       \* the last response sent to a client
    nreq,       \* number of requests received so far
    serial,     \* TRUE: the server is sent one request at a time
    scn,        \* progress of the section 8 scenario (serial runs only)
    calc,       \* an evaluation of a model method on a document snapshot
    populatedAsId  \* TRUE: the string form of a populated reference is its id

vars == <<ride, bookings, hoursLeft, reqs, resp, nreq, serial, scn, calc, populatedAsId>>

----------------------------------------------------------------------------
(* Bounds of the model *)

MaxCapacity == 4
MaxSeatsReq == 3
MaxRequests == 3

Capacities   == 1..MaxCapacity
SeatRequests == 0..MaxSeatsReq
Prices       == {100}
Hours        == {25, -1}
Slots        == {1, 2}
Ratings      == {0, 3, 6}
RatedUserTypes == {"", "driver", "rider", "other"}

(* In an interleaved run every slot carries one request *)
ConcRequests == Cardinality(Slots)

Driver     == "D"
Passengers == {"A", "B"}
Users      == {Driver} \cup Passengers

(* Program constants: the schema validators *)
MinSeats       == 1
MaxSeats       == 10
MaxEntrySeats  == 4
MaxBookedSeats == 10
CancellationDeadlineHours == 1
FullRefundHours == 24
HalfRefundHours == 2
MinRating == 1
MaxRating == 5

ActiveStatuses == {"confirmed", "pending"}

----------------------------------------------------------------------------
(* Documents *)

NoRide ==
    [exists |-> FALSE, driver |-> "none", capacity |-> 0, availableSeats |-> 0,
     pricePerSeat |-> 0, passengers |-> <<>>, status |-> "none", v |-> 0]

Idle ==
    [op |-> "idle", pc |-> "idle", user |-> "none", seats |-> 0, bid |-> 0,
     target |-> "none", loaded |-> NoRide, prev |-> "none"]

(* A booking's rating sub-record with no rating stored *)
NoRating == 0

(* The response bodies of the handlers carry no refund amount *)
NoRefund == -1

NoResp == [op |-> "none", code |-> 0, kind |-> "none", bid |-> 0, refund |-> NoRefund]

RECURSIVE SumSeats(_)
SumSeats(entries) ==
    IF entries = <<>> THEN 0
    ELSE (IF Head(entries).status \in ActiveStatuses THEN Head(entries).seats ELSE 0)
         + SumSeats(Tail(entries))

bookedSeats(r) == SumSeats(r.passengers)

remainingSeats(r) == r.availableSeats - bookedSeats(r)

isFull(r) == remainingSeats(r) <= 0

isPast == hoursLeft < 0

(* Mutant of updateStatus: past rides are completed before the roster is   *)
(* looked at                                                                *)
updateStatusCompletingFirst(r, past) ==
    LET s1 == IF past /\ r.status = "active" THEN "completed" ELSE r.status
        s2 == IF isFull(r) THEN "full"
              ELSE IF s1 = "full" THEN "active"
              ELSE s1
    IN  [r EXCEPT !.status = s2]

updateStatus(r, past) ==
    LET s1 == IF isFull(r) THEN "full"
              ELSE IF r.status = "full" THEN "active"
              ELSE r.status
        s2 == IF past /\ s1 = "active" THEN "completed" ELSE s1
    IN  [r EXCEPT !.status = s2]

(* Schema validation run by save() on the loaded document *)
validRide(r) ==
    /\ r.availableSeats >= MinSeats
    /\ r.availableSeats <= MaxSeats
    /\ \A k \in 1..Len(r.passengers) :
          r.passengers[k].seats >= 1 /\ r.passengers[k].seats <= MaxEntrySeats

validBooking(b) ==
    /\ b.seatsBooked >= 1
    /\ b.seatsBooked <= MaxBookedSeats
    /\ b.totalPrice >= 0

(* Mutant of PopulatedEquals: every user passes the ownership test *)
PopulatedEqualsAnyone(ref, u) == TRUE

(* ref.toString() === req.user.id, for a reference that the find hooks have *)
(* replaced by the referenced document (Ride.driver, Booking.passenger):    *)
(* whether the string form of such a document is its id is not settled by   *)
(* this repository, so both readings are followed.  bookRide and the        *)
(* passenger test of submitRating compare ref._id.toString(), the id.       *)
PopulatedEquals(ref, u) == populatedAsId /\ ref = u

(* Mutant of FindRide: a find that does not filter cancelled rides *)
FindRideUnfiltered == IF ride.exists THEN ride ELSE NoRide

(* Ride.findById and every other find* query: cancelled rides are filtered out *)
FindRide == IF ride.exists /\ ride.status # "cancelled" THEN ride ELSE NoRide

RECURSIVE FilterOut(_, _)
FilterOut(entries, u) ==
    IF entries = <<>> THEN <<>>
    ELSE IF Head(entries).user = u THEN FilterOut(Tail(entries), u)
    ELSE <<Head(entries)>> \o FilterOut(Tail(entries), u)

(* ride.save(): validation, the pre-save status recomputation, then one     *)
(* update of the changed paths.  arrayOp says how the handler changed the   *)
(* roster: "push" appends (no version check), "set" replaces the array      *)
(* (checked against the version loaded), "none" leaves it.                  *)
RideSave(db, loaded, local, arrayOp, past) ==
    LET hooked  == updateStatus(local, past)
        setArr  == arrayOp = "set" /\ local.passengers # loaded.passengers
        pushed  == SubSeq(local.passengers, Len(loaded.passengers) + 1,
                          Len(local.passengers))
        roster  == IF arrayOp = "push" THEN db.passengers \o pushed
                   ELSE IF setArr THEN local.passengers
                   ELSE db.passengers
        version == IF arrayOp = "push" \/ setArr THEN db.v + 1 ELSE db.v
    IN  IF ~validRide(local) THEN [err |-> "ValidationError", doc |-> db]
        ELSE IF setArr /\ db.v # loaded.v THEN [err |-> "VersionError", doc |-> db]
        ELSE [err |-> "none",
              doc |-> [db EXCEPT
                         !.availableSeats =
                             IF local.availableSeats # loaded.availableSeats
                             THEN local.availableSeats ELSE @,
                         !.status =
                             IF hooked.status # loaded.status
                             THEN hooked.status ELSE @,
                         !.passengers = roster,
                         !.v = version]]

ActiveBookingOf(u) ==
    \E k \in 1..Len(bookings) :
        bookings[k].passenger = u /\ bookings[k].status \in ActiveStatuses

AllIdle == \A j \in Slots : reqs[j] = Idle

(* A request is received in the first free slot; in serial runs, and while  *)
(* the count of requests is still below zero (see InitPrefix), only once    *)
(* the previous request has been answered                                   *)
FreeSlot(i) ==
    /\ reqs[i] = Idle
    /\ \A j \in Slots : j < i => reqs[j] # Idle
    /\ (serial \/ nreq <= 0) => AllIdle

Respond(op, code, kind, b) ==
    resp' = [op |-> op, code |-> code, kind |-> kind, bid |-> b, refund |-> NoRefund]

Finish(i) == reqs' = [reqs EXCEPT ![i] = Idle]

----------------------------------------------------------------------------
(* Evaluations of the documents' methods on snapshots *)

(* Booking.calculateRefund: the hours are counted to ride.date, the day of  *)
(* the ride as createRide parsed it, which lies departureTime hours before  *)
(* the departure; a booking whose ride is not populated has no date.        *)
calculateRefund(b, populated, hoursUntilRide) ==
    IF b.status # "cancelled" THEN 0
    ELSE IF ~populated THEN 0
    ELSE IF hoursUntilRide > FullRefundHours THEN b.totalPrice
    ELSE IF hoursUntilRide > HalfRefundHours THEN b.totalPrice \div 2
    ELSE 0

NoBooking ==
    [passenger |-> "none", seatsBooked |-> 0, totalPrice |-> 0,
     status |-> "none", driverRating |-> NoRating, passengerRating |-> NoRating]

(* req.query and req.user.id of a search; texts are sequences of characters *)
NoQuery ==
    [user |-> "none", from |-> <<>>, to |-> <<>>, date |-> 0, seats |-> ""]

NoCalc ==
    [fn |-> "none", applied |-> 0, arg |-> NoRide, ride |-> NoRide,
     past |-> FALSE, booking |-> NoBooking, populated |-> FALSE,
     hoursToDeparture |-> 0, departureTime |-> 0, refund |-> NoRefund,
     rides |-> <<>>, query |-> NoQuery, found |-> <<>>]

----------------------------------------------------------------------------
(* searchRides (backend/controllers/rideController.js) on a collection of   *)
(* rides; a text is a sequence of characters, a date a day number counted   *)
(* from today.                                                              *)

LowerChar(c) == CASE c = "A" -> "a" [] c = "B" -> "b" [] OTHER -> c

toLowerCase(s) == [k \in 1..Len(s) |-> LowerChar(s[k])]

RECURSIVE trimStart(_)
trimStart(s) == IF s # <<>> /\ Head(s) = " " THEN trimStart(Tail(s)) ELSE s

RECURSIVE trimEnd(_)
trimEnd(s) ==
    IF s # <<>> /\ s[Len(s)] = " " THEN trimEnd(SubSeq(s, 1, Len(s) - 1)) ELSE s

trim(s) == trimEnd(trimStart(s))

(* s.replace(/\s+/g, ' ') *)
RECURSIVE collapseSpaces(_)
collapseSpaces(s) ==
    IF Len(s) < 2 THEN s
    ELSE IF s[1] = " " /\ s[2] = " " THEN collapseSpaces(Tail(s))
    ELSE <<s[1]>> \o collapseSpaces(Tail(s))

normalize(s) == collapseSpaces(trim(toLowerCase(s)))

includes(s, sub) ==
    \E k \in 0..(Len(s) - Len(sub)) : SubSeq(s, k + 1, k + Len(sub)) = sub

(* s.split(/\s+/): the words of s, with the empty words that a leading or   *)
(* trailing separator leaves                                                *)
RECURSIVE splitWords(_, _)
splitWords(s, word) ==
    IF s = <<>> THEN <<word>>
    ELSE IF Head(s) = " " THEN <<word>> \o splitWords(trimStart(s), <<>>)
    ELSE splitWords(Tail(s), Append(word, Head(s)))

meaningfulWords(s) ==
    SelectSeq(splitWords(s, <<>>), LAMBDA w : Len(w) >= 2)

enhancedFuzzyMatch(searchText, rideText) ==
    IF searchText = <<>> \/ rideText = <<>> THEN FALSE
    ELSE LET searchNorm  == normalize(searchText)
             rideNorm    == normalize(rideText)
             searchWords == meaningfulWords(searchNorm)
             rideWords   == meaningfulWords(rideNorm)
         IN  IF searchNorm = rideNorm THEN TRUE
             ELSE IF includes(rideNorm, searchNorm) \/ includes(searchNorm, rideNorm)
                  THEN TRUE
             ELSE IF searchWords = <<>> \/ rideWords = <<>> THEN FALSE
             ELSE \E a \in 1..Len(searchWords), b \in 1..Len(rideWords) :
                     \/ includes(rideWords[b], searchWords[a])
                     \/ includes(searchWords[a], rideWords[b])

fuzzyLocationMatch(rides, searchFrom, searchTo) ==
    SelectSeq(rides, LAMBDA r :
        /\ enhancedFuzzyMatch(trim(toLowerCase(searchFrom)), toLowerCase(r.from))
        /\ enhancedFuzzyMatch(trim(toLowerCase(searchTo)), toLowerCase(r.to)))

Abs(n) == IF n < 0 THEN -n ELSE n

calculateMatchScore(r, searchFrom, searchTo) ==
    LET rideFrom == toLowerCase(r.from)
        rideTo   == toLowerCase(r.to)
        searchFromLower == toLowerCase(searchFrom)
        searchToLower   == toLowerCase(searchTo)
        daysDiff == Abs(r.date)
    IN  (IF rideFrom = searchFromLower THEN 50 ELSE 0)
      + (IF rideTo = searchToLower THEN 50 ELSE 0)
      + (IF includes(rideFrom, searchFromLower) THEN 30 ELSE 0)
      + (IF includes(rideTo, searchToLower) THEN 30 ELSE 0)
      + (IF enhancedFuzzyMatch(searchFromLower, rideFrom) THEN 20 ELSE 0)
      + (IF enhancedFuzzyMatch(searchToLower, rideTo) THEN 20 ELSE 0)
      + (IF daysDiff <= 1 THEN 20 ELSE IF daysDiff <= 3 THEN 10 ELSE 0)

(* Array.prototype.sort and the query's sort are stable: each element is   *)
(* inserted after the elements whose key is not greater than its own        *)
RECURSIVE insertSorted(_, _)
insertSorted(sorted, x) ==
    IF sorted = <<>> THEN <<x>>
    ELSE IF x.key < Head(sorted).key THEN <<x>> \o sorted
    ELSE <<Head(sorted)>> \o insertSorted(Tail(sorted), x)

RECURSIVE stableSort(_)
stableSort(s) ==
    IF s = <<>> THEN <<>>
    ELSE insertSorted(stableSort(SubSeq(s, 1, Len(s) - 1)), s[Len(s)])

(* The seats parameter of the query string, and parseInt of it *)
SeatsParams == {"", "0", "2"}

parseInt(s) == CASE s = "0" -> 0 [] s = "2" -> 2 [] OTHER -> 1

(* Ride.find(query).sort({ date: 1, departureTime: 1 }) *)
SearchQuery(rides, q) ==
    LET minSeats == IF q.seats # "" THEN parseInt(q.seats) ELSE 1
        selected == SelectSeq(rides, LAMBDA r :
                       /\ r.status = "active"
                       /\ r.date = q.date
                       /\ r.driver # q.user
                       /\ r.availableSeats >= minSeats)
        sorted == stableSort([k \in 1..Len(selected) |->
                                 [key |-> selected[k].date, doc |-> selected[k]]])
    IN  [k \in 1..Len(sorted) |-> sorted[k].doc]

searchRides(rides, q) ==
    LET candidates   == SearchQuery(rides, q)
        matchedRides == SelectSeq(candidates, LAMBDA r :
                           /\ enhancedFuzzyMatch(q.from, r.from)
                           /\ enhancedFuzzyMatch(q.to, r.to))
        finalResults == IF matchedRides = <<>>
                        THEN fuzzyLocationMatch(candidates, q.from, q.to)
                        ELSE matchedRides
        enhancedResults ==
            [k \in 1..Len(finalResults) |->
                [ride |-> finalResults[k],
                 matchScore |-> calculateMatchScore(finalResults[k], q.from, q.to)]]
        sorted == stableSort([k \in 1..Len(enhancedResults) |->
                                 [key |-> 0 - enhancedResults[k].matchScore,
                                  doc |-> enhancedResults[k]]])
    IN  [k \in 1..Len(sorted) |-> sorted[k].doc]

----------------------------------------------------------------------------
(* The scenario of section 8, followed as an observer of serial runs:       *)
(* scn = 1 once a ride of capacity 3 at 100 per seat exists 25 hours before *)
(* departure, scn = k + 1 once the k-th request of the scenario has been    *)
(* received right after the (k-1)-th, and -1 once the run has left it.      *)

Request(op, u, s, pp, b, st) ==
    [op |-> op, user |-> u, seats |-> s, pp |-> pp, bid |-> b, status |-> st]

ScnRequest(k) ==
    CASE k = 1 -> Request("bookRide", "A", 2, TRUE, 0, "none")
      [] k = 2 -> Request("bookRide", "B", 2, TRUE, 0, "none")
      [] k = 3 -> Request("bookRide", "B", 1, TRUE, 0, "none")
      [] k = 4 -> Request("cancelBooking", "A", 0, TRUE, 1, "none")

ScnAfterRequest(d) ==
    IF ~serial \/ scn = 0 THEN scn
    ELSE IF scn \in 1..4 /\ d = ScnRequest(scn) THEN scn + 1
    ELSE -1

ScnAfterCreate(cap, price) ==
    IF ~serial THEN scn
    ELSE IF cap = 3 /\ price = 100 /\ hoursLeft = 25 THEN 1
    ELSE -1

ScnAfterTick == IF ~serial \/ scn = 0 THEN scn ELSE -1

(* A request is received: it counts against the budget of the run *)
Accept(d) ==
    /\ nreq < (IF serial THEN MaxRequests ELSE ConcRequests)
    /\ nreq' = nreq + 1
    /\ scn' = ScnAfterRequest(d)
    /\ UNCHANGED <<serial, calc, populatedAsId>>

----------------------------------------------------------------------------
(* Initial state: an empty store at some time before or after departure *)

Init ==
    /\ ride = NoRide
    /\ bookings = <<>>
    /\ hoursLeft \in Hours
    /\ reqs = [i \in Slots |-> Idle]
    /\ resp = NoResp
    /\ nreq = 0
    /\ scn = 0
    /\ serial = TRUE
    /\ calc = NoCalc
    /\ populatedAsId \in BOOLEAN

(* The same store, with requests interleaving at every store operation *)
InitConc ==
    /\ ride = NoRide
    /\ bookings = <<>>
    /\ hoursLeft \in Hours
    /\ reqs = [i \in Slots |-> Idle]
    /\ resp = NoResp
    /\ nreq = 0
    /\ scn = 0
    /\ serial = FALSE
    /\ calc = NoCalc
    /\ populatedAsId \in BOOLEAN

(* One request served alone, then interleaved ones: the count of requests   *)
(* starts one below zero                                                    *)
InitPrefix ==
    /\ ride = NoRide
    /\ bookings = <<>>
    /\ hoursLeft \in Hours
    /\ reqs = [i \in Slots |-> Idle]
    /\ resp = NoResp
    /\ nreq = -1
    /\ scn = 0
    /\ serial = FALSE
    /\ calc = NoCalc
    /\ populatedAsId \in BOOLEAN

(* Time passes *)
Tick ==
    /\ \E h \in Hours : h < hoursLeft /\ hoursLeft' = h
    /\ scn' = ScnAfterTick
    /\ UNCHANGED <<ride, bookings, reqs, resp, nreq, serial, calc, populatedAsId>>

(* createRide: Ride.create runs the pre-save status recomputation *)
CreateRide(cap, price) ==
    /\ ~ride.exists
    /\ LET doc == [exists |-> TRUE, driver |-> Driver, capacity |-> cap,
                   availableSeats |-> cap, pricePerSeat |-> price,
                   passengers |-> <<>>, status |-> "active", v |-> 0]
       IN  /\ validRide(doc)
           /\ ride' = updateStatus(doc, isPast)
    /\ Respond("createRide", 201, "Created", 0)
    /\ scn' = ScnAfterCreate(cap, price)
    /\ UNCHANGED <<bookings, hoursLeft, reqs, nreq, serial, calc, populatedAsId>>

----------------------------------------------------------------------------
(* bookRide *)

(* Mutant of IsOwnRide: the driver is not recognised *)
IsOwnRideNever(r, u) == FALSE

(* ride.driver._id.toString() === req.user.id *)
IsOwnRide(r, u) == r.driver = u

(* Mutant of TotalPrice: the price of one seat, whatever the seats booked *)
TotalPriceOfOneSeat(seats, r) == r.pricePerSeat

(* const totalPrice = parseInt(seats) * ride.pricePerSeat *)
TotalPrice(seats, r) == seats * r.pricePerSeat

(* Mutant of EnoughSeats: compares with the ride's size, not what is left *)
EnoughSeatsOfCapacity(r, s) == ~(r.capacity < s)

(* The availability check of the handler *)
EnoughSeats(r, s) == ~(r.availableSeats < s)

(* Input validation, Ride.findById and the checks on the loaded ride *)
BookRideStart(i, u, s, pp) ==
    /\ FreeSlot(i)
    /\ Accept(Request("bookRide", u, s, pp, 0, "none"))
    /\ LET r == FindRide
           reject(code, kind) ==
               /\ Respond("bookRide", code, kind, 0)
               /\ UNCHANGED reqs
       IN  IF s < 1 THEN reject(400, "InvalidSeats")
           ELSE IF ~pp THEN reject(400, "NoPickupPoint")
           ELSE IF ~r.exists THEN reject(404, "RideNotFound")
           ELSE IF r.status # "active" THEN reject(400, "RideNotActive")
           ELSE IF ~EnoughSeats(r, s) THEN reject(400, "NotEnoughSeats")
           ELSE IF IsOwnRide(r, u) THEN reject(400, "OwnRide")
           ELSE /\ reqs' = [reqs EXCEPT ![i] =
                              [Idle EXCEPT !.op = "bookRide", !.pc = "findExisting",
                                           !.user = u, !.seats = s, !.loaded = r]]
                /\ UNCHANGED resp
    /\ UNCHANGED <<ride, bookings, hoursLeft>>

(* Booking.findOne for an active booking of this passenger *)
BookRideFindExisting(i) ==
    /\ reqs[i].op = "bookRide" /\ reqs[i].pc = "findExisting"
    /\ IF ActiveBookingOf(reqs[i].user)
       THEN /\ Respond("bookRide", 400, "Duplicate", 0)
            /\ Finish(i)
       ELSE /\ reqs' = [reqs EXCEPT ![i].pc = "preSave"]
            /\ UNCHANGED resp
    /\ UNCHANGED <<ride, bookings, hoursLeft, nreq, serial, scn, calc, populatedAsId>>

(* Booking.create: validation and the pre-save hook, which reads the ride *)
BookRidePreSave(i) ==
    /\ reqs[i].op = "bookRide" /\ reqs[i].pc = "preSave"
    /\ LET r == FindRide
           q == reqs[i]
           b == [seatsBooked |-> q.seats,
                 totalPrice |-> TotalPrice(q.seats, q.loaded)]
           throw(kind) ==
               /\ Respond("bookRide", 500, kind, 0)
               /\ Finish(i)
       IN  IF ~validBooking(b) THEN throw("ValidationError")
           ELSE IF ~r.exists THEN throw("HookRideNotFound")
           ELSE IF r.availableSeats < q.seats THEN throw("HookNotEnoughSeats")
           ELSE IF r.status # "active" THEN throw("HookRideNotActive")
           ELSE /\ reqs' = [reqs EXCEPT ![i].pc = "insert"]
                /\ UNCHANGED resp
    /\ UNCHANGED <<ride, bookings, hoursLeft, nreq, serial, scn, calc, populatedAsId>>

(* Booking.create: the insert, under the unique partial index *)
BookRideInsert(i) ==
    /\ reqs[i].op = "bookRide" /\ reqs[i].pc = "insert"
    /\ LET q == reqs[i] IN
       IF ActiveBookingOf(q.user)
       THEN /\ Respond("bookRide", 500, "DuplicateKey", 0)
            /\ Finish(i)
            /\ UNCHANGED bookings
       ELSE /\ bookings' = Append(bookings,
                              [passenger |-> q.user, seatsBooked |-> q.seats,
                               totalPrice |-> TotalPrice(q.seats, q.loaded),
                               status |-> "confirmed",
                               driverRating |-> NoRating,
                               passengerRating |-> NoRating])
            /\ reqs' = [reqs EXCEPT ![i].pc = "postSave",
                                    ![i].bid = Len(bookings) + 1]
            /\ UNCHANGED resp
    /\ UNCHANGED <<ride, hoursLeft, nreq, serial, scn, calc, populatedAsId>>

(* The booking's post-save hook: Ride.findByIdAndUpdate with $inc, $addToSet *)
PostSaveHook(r, b, id) ==
    IF b.status = "confirmed" /\ r.exists /\ r.status # "cancelled"
    THEN [r EXCEPT !.availableSeats = @ - b.seatsBooked,
                   !.passengers = Append(@, [user |-> b.passenger,
                                             seats |-> b.seatsBooked,
                                             booking |-> id,
                                             status |-> "confirmed"])]
    ELSE r

BookRidePostSave(i) ==
    /\ reqs[i].op = "bookRide" /\ reqs[i].pc = "postSave"
    /\ ride' = PostSaveHook(ride, bookings[reqs[i].bid], reqs[i].bid)
    /\ reqs' = [reqs EXCEPT ![i].pc = "saveRide"]
    /\ UNCHANGED <<bookings, hoursLeft, resp, nreq, serial, scn, calc, populatedAsId>>

(* The handler's own update of the ride it loaded, and ride.save() *)
BookRideLocal(loaded, u, s, id) ==
    LET seats == loaded.availableSeats - s
    IN  [loaded EXCEPT
           !.availableSeats = seats,
           !.passengers = Append(@, [user |-> u, seats |-> s, booking |-> id,
                                     status |-> "confirmed"]),
           !.status = IF seats = 0 THEN "full" ELSE @]

BookRideSaveRide(i) ==
    /\ reqs[i].op = "bookRide" /\ reqs[i].pc = "saveRide"
    /\ LET q     == reqs[i]
           local == BookRideLocal(q.loaded, q.user, q.seats, q.bid)
           res   == RideSave(ride, q.loaded, local, "push", isPast)
       IN  /\ ride' = res.doc
           /\ IF res.err # "none"
              THEN Respond("bookRide", 500, res.err, q.bid)
              ELSE IF res.doc.status = "cancelled"
              THEN Respond("bookRide", 500, "PopulateNull", q.bid)
              ELSE Respond("bookRide", 200, "Booked", q.bid)
    /\ Finish(i)
    /\ UNCHANGED <<bookings, hoursLeft, nreq, serial, scn, calc, populatedAsId>>

----------------------------------------------------------------------------
(* cancelBooking *)

(* Booking.findById with the ride populated, and the ownership check *)
CancelBookingStart(i, u, b) ==
    /\ FreeSlot(i)
    /\ Accept(Request("cancelBooking", u, 0, TRUE, b, "none"))
    /\ LET reject(code, kind) ==
               /\ Respond("cancelBooking", code, kind, b)
               /\ UNCHANGED reqs
       IN  IF b > Len(bookings) THEN reject(404, "BookingNotFound")
           ELSE IF ~PopulatedEquals(bookings[b].passenger, u)
                THEN reject(403, "NotAuthorized")
           ELSE /\ reqs' = [reqs EXCEPT ![i] =
                              [Idle EXCEPT !.op = "cancelBooking",
                                           !.pc = "saveBooking", !.user = u,
                                           !.bid = b,
                                           !.seats = bookings[b].seatsBooked,
                                           !.prev = bookings[b].status,
                                           !.loaded = FindRide]]
                /\ UNCHANGED resp
    /\ UNCHANGED <<ride, bookings, hoursLeft>>

(* booking.status = 'cancelled'; booking.save() with its post-save hook;   *)
(* then booking.ride._id, which throws when the populated ride is null      *)
CancelBookingSaveBooking(i) ==
    /\ reqs[i].op = "cancelBooking" /\ reqs[i].pc = "saveBooking"
    /\ LET q == reqs[i] IN
       /\ bookings' = [bookings EXCEPT ![q.bid].status = "cancelled"]
       /\ ride' = PostSaveHook(ride, bookings'[q.bid], q.bid)
       /\ IF ~q.loaded.exists
          THEN /\ Respond("cancelBooking", 500, "PopulateNull", q.bid)
               /\ Finish(i)
          ELSE /\ reqs' = [reqs EXCEPT ![i].pc = "findRide"]
               /\ UNCHANGED resp
    /\ UNCHANGED <<hoursLeft, nreq, serial, scn, calc, populatedAsId>>

(* Ride.findById(booking.ride._id) *)
CancelBookingFindRide(i) ==
    /\ reqs[i].op = "cancelBooking" /\ reqs[i].pc = "findRide"
    /\ LET q == reqs[i]
           r == FindRide
       IN  IF ~r.exists
           THEN /\ Respond("cancelBooking", 500, "RideNull", q.bid)
                /\ Finish(i)
           ELSE /\ reqs' = [reqs EXCEPT ![i].pc = "saveRide", ![i].loaded = r]
                /\ UNCHANGED resp
    /\ UNCHANGED <<ride, bookings, hoursLeft, nreq, serial, scn, calc, populatedAsId>>

CancelBookingLocal(loaded, u, s) ==
    [loaded EXCEPT
       !.availableSeats = @ + s,
       !.passengers = FilterOut(@, u),
       !.status = IF @ = "full" THEN "active" ELSE @]

CancelBookingSaveRide(i) ==
    /\ reqs[i].op = "cancelBooking" /\ reqs[i].pc = "saveRide"
    /\ LET q     == reqs[i]
           local == CancelBookingLocal(q.loaded, q.user, q.seats)
           res   == RideSave(ride, q.loaded, local, "set", isPast)
       IN  /\ ride' = res.doc
           /\ IF res.err # "none"
              THEN Respond("cancelBooking", 500, res.err, q.bid)
              ELSE Respond("cancelBooking", 200, "Cancelled", q.bid)
    /\ Finish(i)
    /\ UNCHANGED <<bookings, hoursLeft, nreq, serial, scn, calc, populatedAsId>>

----------------------------------------------------------------------------
(* cancelRide and updateRideStatus *)

(* Booking.updateMany({ride, status: 'confirmed'}, {status: to}) *)
UpdateMany(bs, to) ==
    [k \in 1..Len(bs) |->
        IF bs[k].status = "confirmed" THEN [bs[k] EXCEPT !.status = to] ELSE bs[k]]

CancelRideStart(i, u) ==
    /\ FreeSlot(i)
    /\ Accept(Request("cancelRide", u, 0, TRUE, 0, "none"))
    /\ LET r == FindRide
           reject(code, kind) ==
               /\ Respond("cancelRide", code, kind, 0)
               /\ UNCHANGED reqs
       IN  IF ~r.exists THEN reject(404, "RideNotFound")
           ELSE IF ~PopulatedEquals(r.driver, u)
                THEN reject(403, "NotAuthorized")
           ELSE /\ reqs' = [reqs EXCEPT ![i] =
                              [Idle EXCEPT !.op = "cancelRide", !.pc = "updateMany",
                                           !.user = u, !.target = "cancelled",
                                           !.loaded = r]]
                /\ UNCHANGED resp
    /\ UNCHANGED <<ride, bookings, hoursLeft>>

CancelRideUpdateMany(i) ==
    /\ reqs[i].op = "cancelRide" /\ reqs[i].pc = "updateMany"
    /\ bookings' = UpdateMany(bookings, "cancelled")
    /\ reqs' = [reqs EXCEPT ![i].pc = "saveRide"]
    /\ UNCHANGED <<ride, hoursLeft, resp, nreq, serial, scn, calc, populatedAsId>>

(* ride.status = 'cancelled'; ride.save() *)
CancelRideSaveRide(i) ==
    /\ reqs[i].op = "cancelRide" /\ reqs[i].pc = "saveRide"
    /\ LET q     == reqs[i]
           local == [q.loaded EXCEPT !.status = "cancelled"]
           res   == RideSave(ride, q.loaded, local, "none", isPast)
       IN  /\ ride' = res.doc
           /\ IF res.err # "none"
              THEN Respond("cancelRide", 500, res.err, 0)
              ELSE Respond("cancelRide", 200, "RideCancelled", 0)
    /\ Finish(i)
    /\ UNCHANGED <<bookings, hoursLeft, nreq, serial, scn, calc, populatedAsId>>

StatusInputs == {"active", "completed", "cancelled", "full"}

UpdateRideStatusStart(i, u, st) ==
    /\ FreeSlot(i)
    /\ Accept(Request("updateRideStatus", u, 0, TRUE, 0, st))
    /\ LET r == FindRide
           reject(code, kind) ==
               /\ Respond("updateRideStatus", code, kind, 0)
               /\ UNCHANGED reqs
       IN  IF st \notin {"active", "completed", "cancelled"}
           THEN reject(400, "InvalidStatus")
           ELSE IF ~r.exists THEN reject(404, "RideNotFound")
           ELSE IF ~PopulatedEquals(r.driver, u)
                THEN reject(403, "NotAuthorized")
           ELSE /\ reqs' = [reqs EXCEPT ![i] =
                              [Idle EXCEPT !.op = "updateRideStatus",
                                           !.pc = IF st = "completed"
                                                  THEN "updateMany" ELSE "saveRide",
                                           !.user = u, !.target = st, !.loaded = r]]
                /\ UNCHANGED resp
    /\ UNCHANGED <<ride, bookings, hoursLeft>>

UpdateRideStatusUpdateMany(i) ==
    /\ reqs[i].op = "updateRideStatus" /\ reqs[i].pc = "updateMany"
    /\ bookings' = UpdateMany(bookings, "completed")
    /\ reqs' = [reqs EXCEPT ![i].pc = "saveRide"]
    /\ UNCHANGED <<ride, hoursLeft, resp, nreq, serial, scn, calc, populatedAsId>>

(* ride.status = status; ride.save() *)
UpdateRideStatusSaveRide(i) ==
    /\ reqs[i].op = "updateRideStatus" /\ reqs[i].pc = "saveRide"
    /\ LET q     == reqs[i]
           local == [q.loaded EXCEPT !.status = q.target]
           res   == RideSave(ride, q.loaded, local, "none", isPast)
       IN  /\ ride' = res.doc
           /\ IF res.err # "none"
              THEN Respond("updateRideStatus", 500, res.err, 0)
              ELSE Respond("updateRideStatus", 200, "StatusUpdated", 0)
    /\ Finish(i)
    /\ UNCHANGED <<bookings, hoursLeft, nreq, serial, scn, calc, populatedAsId>>

----------------------------------------------------------------------------

----------------------------------------------------------------------------
(* submitRating (backend/controllers/ratingController.js) *)

(* Truthiness of booking.driverRating / booking.passengerRating: both are   *)
(* nested paths of the schema, which read as an object whether or not any   *)
(* of their fields is stored, and an object is truthy.                      *)
NestedPathTruthy(nested) == TRUE

(* The handler awaits the store once, in Booking.findById with the ride and *)
(* the passenger populated, before any path that answers the client.  The   *)
(* assignment of the number to the nested path, on the path where the       *)
(* sub-record reads as unset, is a cast error that fails booking.save().    *)
SubmitRating(i, u, b, rating, ratedUserType) ==
    /\ FreeSlot(i)
    /\ Accept(Request("submitRating", u, rating, TRUE, b, ratedUserType))
    /\ LET answer(code, kind) == Respond("submitRating", code, kind, b)
       IN  IF rating = 0 \/ ratedUserType = "" THEN answer(400, "MissingInput")
           ELSE IF rating < MinRating \/ rating > MaxRating
                THEN answer(400, "RatingOutOfRange")
           ELSE IF ratedUserType \notin {"driver", "rider"}
                THEN answer(400, "InvalidUserType")
           ELSE IF b > Len(bookings) THEN answer(404, "BookingNotFound")
           ELSE IF ~FindRide.exists THEN answer(500, "PopulateNull")
           ELSE IF FindRide.status # "completed" THEN answer(400, "NotEligible")
           ELSE IF ratedUserType = "driver"
                THEN IF bookings[b].passenger # u THEN answer(403, "NotAuthorized")
                     ELSE IF NestedPathTruthy(bookings[b].driverRating)
                          THEN answer(400, "AlreadyRated")
                     ELSE answer(500, "ValidationError")
           ELSE IF ~PopulatedEquals(FindRide.driver, u)
                THEN answer(403, "NotAuthorized")
           ELSE IF NestedPathTruthy(bookings[b].passengerRating)
                THEN answer(400, "AlreadyRated")
           ELSE answer(500, "ValidationError")
    /\ UNCHANGED <<ride, bookings, hoursLeft, reqs>>

BookingIds == 1..MaxRequests

----------------------------------------------------------------------------

Next ==
    \/ Tick
    \/ \E cap \in Capacities, price \in Prices : CreateRide(cap, price)
    \/ \E i \in Slots, u \in Users, s \in SeatRequests, pp \in BOOLEAN :
          BookRideStart(i, u, s, pp)
    \/ \E i \in Slots : BookRideFindExisting(i)
    \/ \E i \in Slots : BookRidePreSave(i)
    \/ \E i \in Slots : BookRideInsert(i)
    \/ \E i \in Slots : BookRidePostSave(i)
    \/ \E i \in Slots : BookRideSaveRide(i)
    \/ \E i \in Slots, u \in Users, b \in BookingIds : CancelBookingStart(i, u, b)
    \/ \E i \in Slots : CancelBookingSaveBooking(i)
    \/ \E i \in Slots : CancelBookingFindRide(i)
    \/ \E i \in Slots : CancelBookingSaveRide(i)
    \/ \E i \in Slots, u \in Users : CancelRideStart(i, u)
    \/ \E i \in Slots : CancelRideUpdateMany(i)
    \/ \E i \in Slots : CancelRideSaveRide(i)
    \/ \E i \in Slots, u \in Users, st \in StatusInputs :
          UpdateRideStatusStart(i, u, st)
    \/ \E i \in Slots : UpdateRideStatusUpdateMany(i)
    \/ \E i \in Slots : UpdateRideStatusSaveRide(i)
    \/ \E i \in Slots, u \in Users, b \in BookingIds, rating \in Ratings,
          ratedUserType \in RatedUserTypes :
          SubmitRating(i, u, b, rating, ratedUserType)

(* One request at a time: a handler runs to its response before the next   *)
(* request is received                                                      *)
Spec == Init /\ [][Next]_vars

(* Requests interleave at every store operation *)
SpecConc == InitConc /\ [][Next]_vars

SpecPrefix == InitPrefix /\ [][Next]_vars

----------------------------------------------------------------------------
(* The documents' methods, each applied to every snapshot of a bounded set *)

RideStatuses ==
    {"active", "completed", "cancelled", "full", "in-progress", "expired"}

Rosters ==
    {<<>>} \cup
    { <<[status |-> st, user |-> "A", seats |-> s, booking |-> 1]>> :
         st \in {"confirmed", "cancelled"}, s \in 1..MaxSeatsReq }

RideSnapshots ==
    { [exists |-> TRUE, driver |-> Driver, capacity |-> MaxCapacity,
       availableSeats |-> a, pricePerSeat |-> 100, passengers |-> ps,
       status |-> st, v |-> 0] :
         a \in 0..MaxCapacity, ps \in Rosters, st \in RideStatuses }

BookingSnapshots ==
    { [passenger |-> "A", seatsBooked |-> 1, totalPrice |-> p, status |-> st,
       driverRating |-> NoRating, passengerRating |-> NoRating] :
         p \in {200, 500}, st \in {"cancelled", "confirmed"} }

HoursToDeparture == {1, 2, 10, 24, 25}
DepartureTimes   == {0, 18}

(* Inputs of searchRides: the texts "ab" and "AB  bb" asked, the addresses   *)
(* "Ab", "bb ab" and "ba" stored, the destinations "b" and "a" stored and    *)
(* "B" asked; rides today and in five days                                  *)
SearchFromTexts == { <<"a", "b">>, <<"A", "B", " ", " ", "b", "b">> }
RideFromTexts   == { <<"A", "b">>, <<"b", "b", " ", "a", "b">>, <<"b", "a">> }
RideToTexts     == { <<"b">>, <<"a">> }
SearchDates     == {0, 5}

SearchDocs ==
    [status : {"active", "full"}, driver : {Driver, "A"}, availableSeats : 0..2,
     from : RideFromTexts, to : RideToTexts, date : SearchDates]

OtherSearchDocs ==
    [status : {"active"}, driver : {Driver}, availableSeats : 1..2,
     from : RideFromTexts, to : RideToTexts, date : SearchDates]

SearchQueries ==
    [user : {"A"}, from : SearchFromTexts, to : {<<"B">>}, date : SearchDates,
     seats : SeatsParams]

InitFn ==
    /\ ride = NoRide
    /\ bookings = <<>>
    /\ hoursLeft = 25
    /\ reqs = [i \in Slots |-> Idle]
    /\ resp = NoResp
    /\ nreq = 0
    /\ scn = 0
    /\ serial = TRUE
    /\ populatedAsId = TRUE
    /\ \/ \E r \in RideSnapshots, past \in BOOLEAN :
             calc = [NoCalc EXCEPT !.fn = "updateStatus", !.arg = r,
                                   !.ride = r, !.past = past]
       \/ \E b \in BookingSnapshots, pop \in BOOLEAN,
             h \in HoursToDeparture, d \in DepartureTimes :
             calc = [NoCalc EXCEPT !.fn = "calculateRefund", !.booking = b,
                                   !.populated = pop, !.hoursToDeparture = h,
                                   !.departureTime = d]
       \/ \E r \in RideSnapshots, b \in BookingSnapshots :
             calc = [NoCalc EXCEPT !.fn = "save", !.arg = r, !.ride = r,
                                   !.booking = b]
       \/ \E r1 \in SearchDocs, r2 \in OtherSearchDocs, q \in SearchQueries :
             calc = [NoCalc EXCEPT !.fn = "searchRides", !.rides = <<r1, r2>>,
                                   !.query = q]

(* ride.updateStatus(), once and once more *)
ApplyUpdateStatus ==
    /\ calc.fn = "updateStatus" /\ calc.applied < 2
    /\ calc' = [calc EXCEPT !.ride = updateStatus(calc.ride, calc.past),
                            !.applied = @ + 1]
    /\ UNCHANGED <<ride, bookings, hoursLeft, reqs, resp, nreq, serial, scn,
                   populatedAsId>>

(* booking.calculateRefund() *)
ApplyCalculateRefund ==
    /\ calc.fn = "calculateRefund" /\ calc.applied = 0
    /\ calc' = [calc EXCEPT
                  !.refund = calculateRefund(calc.booking, calc.populated,
                                calc.hoursToDeparture - calc.departureTime),
                  !.applied = 1]
    /\ UNCHANGED <<ride, bookings, hoursLeft, reqs, resp, nreq, serial, scn,
                   populatedAsId>>

(* booking.save() on a stored booking whose seatsBooked is not modified:    *)
(* the pre-save hook skips its checks, the post-save hook runs.             *)
ApplySaveBooking ==
    /\ calc.fn = "save" /\ calc.applied = 0
    /\ calc' = [calc EXCEPT !.ride = PostSaveHook(calc.ride, calc.booking, 1),
                            !.applied = 1]
    /\ UNCHANGED <<ride, bookings, hoursLeft, reqs, resp, nreq, serial, scn,
                   populatedAsId>>

(* searchRides, answered with the list it found *)
ApplySearchRides ==
    /\ calc.fn = "searchRides" /\ calc.applied = 0
    /\ calc' = [calc EXCEPT !.found = searchRides(calc.rides, calc.query),
                            !.applied = 1]
    /\ UNCHANGED <<ride, bookings, hoursLeft, reqs, resp, nreq, serial, scn,
                   populatedAsId>>

NextFn ==
    \/ ApplyUpdateStatus
    \/ ApplyCalculateRefund
    \/ ApplySaveBooking
    \/ ApplySearchRides

SpecFn == InitFn /\ [][NextFn]_vars

----------------------------------------------------------------------------
(* Properties *)

Quiescent == AllIdle

(* C1: whenever no request is in flight, the ride's availableSeats equals   *)
(* its capacity at creation minus the seats of its roster entries with      *)
(* status confirmed or pending, and is never negative.                      *)
C1_SeatAccounting ==
    (ride.exists /\ Quiescent) =>
        /\ ride.availableSeats = ride.capacity - bookedSeats(ride)
        /\ ride.availableSeats >= 0

RECURSIVE SeatsWithStatus(_, _)
SeatsWithStatus(bs, statuses) ==
    IF bs = <<>> THEN 0
    ELSE (IF Head(bs).status \in statuses THEN Head(bs).seatsBooked ELSE 0)
         + SeatsWithStatus(Tail(bs), statuses)

(* C2: with bookRide requests interleaving at their store operations, the   *)
(* seats of the ride's confirmed bookings never add up to more than the     *)
(* ride's capacity at creation.                                             *)
C2_NoOverbooking ==
    ride.exists => SeatsWithStatus(bookings, {"confirmed"}) <= ride.capacity

(* C3 as stated: a well-formed bookRide for more seats than the ride has   *)
(* left is answered with the capacity error, creates no booking and leaves  *)
(* the ride unchanged.                                                      *)
C3_AlwaysCapacityError ==
    [][\A i \in Slots, u \in Users, s \in SeatRequests :
          (BookRideStart(i, u, s, TRUE) /\ ride.exists /\ s >= 1
             /\ s > ride.availableSeats)
          => /\ resp' = [op |-> "bookRide", code |-> 400,
                         kind |-> "NotEnoughSeats", bid |-> 0, refund |-> NoRefund]
             /\ UNCHANGED <<ride, bookings, reqs>>]_vars

(* C3, amended: a well-formed bookRide for more seats than the ride has     *)
(* left is rejected at once, creates no booking and leaves the ride         *)
(* unchanged; the error is the capacity error when the ride is active, the  *)
(* invalid-state error when its status is full, completed or any other      *)
(* non-active status, and not-found when the ride is cancelled.             *)
C3_InsufficientSeatsRejected ==
    [][\A i \in Slots, u \in Users, s \in SeatRequests :
          (BookRideStart(i, u, s, TRUE) /\ ride.exists /\ s >= 1
             /\ s > ride.availableSeats)
          => /\ resp' = [op |-> "bookRide",
                         code |-> IF ride.status = "cancelled" THEN 404 ELSE 400,
                         kind |-> IF ride.status = "cancelled" THEN "RideNotFound"
                                  ELSE IF ride.status # "active" THEN "RideNotActive"
                                  ELSE "NotEnoughSeats",
                         bid |-> 0, refund |-> NoRefund]
             /\ UNCHANGED <<ride, bookings, reqs>>]_vars

(* C3 witness: an active ride with a booking has just refused a request     *)
(* for more seats than it has left.                                         *)
C3_Witness ==
    /\ resp = [op |-> "bookRide", code |-> 400, kind |-> "NotEnoughSeats", bid |-> 0, refund |-> NoRefund]
    /\ ride.exists /\ ride.status = "active"
    /\ ride.availableSeats < MaxSeatsReq
    /\ bookings # <<>>

(* C4: no passenger ever holds two bookings with status pending or         *)
(* confirmed on the ride, and a bookRide that the ride would otherwise      *)
(* accept (it passed the ride's status, seat and owner checks), sent by a   *)
(* passenger who holds such a booking when the request is answered, is      *)
(* answered with the duplicate error and creates no booking.                *)
C4_NoDoubleBooking ==
    /\ [](\A j, k \in 1..Len(bookings) :
            (j # k /\ bookings[j].status \in ActiveStatuses
                   /\ bookings[k].status \in ActiveStatuses)
            => bookings[j].passenger # bookings[k].passenger)
    /\ [][\A i \in Slots :
            (reqs[i].op = "bookRide" /\ reqs[i].bid = 0 /\ reqs'[i] = Idle
               /\ ActiveBookingOf(reqs[i].user))
            => /\ resp' = [op |-> "bookRide", code |-> 400,
                           kind |-> "Duplicate", bid |-> 0, refund |-> NoRefund]
               /\ bookings' = bookings]_vars

C7_FailedBookingUndone ==
    (Quiescent /\ resp.op = "bookRide" /\ resp.code = 500 /\ resp.bid # 0)
    => /\ bookings[resp.bid].status \notin ActiveStatuses
       /\ \A k \in 1..Len(ride.passengers) :
             ride.passengers[k].booking # resp.bid

(* C8: the scenario on a ride of capacity 3 at 100 per seat, 25 hours      *)
(* before departure, read after each of its requests has been answered:     *)
(* A books 2 seats (success, 1 seat left, booking confirmed at 200); B books *)
(* 2 seats (failure, no booking, still 1 seat left); B books 1 seat         *)
(* (success, 0 seats left, ride full); A cancels (success, 2 seats left,    *)
(* ride active).                                                            *)
C8_Scenario ==
    Quiescent =>
    /\ scn = 2 => /\ resp = [op |-> "bookRide", code |-> 200,
                             kind |-> "Booked", bid |-> 1, refund |-> NoRefund]
                  /\ ride.availableSeats = 1
                  /\ bookings[1].totalPrice = 200
                  /\ bookings[1].status = "confirmed"
    /\ scn = 3 => /\ resp.op = "bookRide" /\ resp.code # 200
                  /\ Len(bookings) = 1
                  /\ ride.availableSeats = 1
    /\ scn = 4 => /\ resp.op = "bookRide" /\ resp.code = 200
                  /\ ride.availableSeats = 0
                  /\ ride.status = "full"
    /\ scn = 5 => /\ resp.op = "cancelBooking" /\ resp.code = 200
                  /\ ride.availableSeats = 2
                  /\ ride.status = "active"

C13_CompletedRideCompletesBookings ==
    (Quiescent /\ ride.exists /\ ride.status = "completed")
    => \A k \in 1..Len(bookings) : bookings[k].status # "confirmed"

(* C14: when no request is in progress, a ride that is neither completed    *)
(* nor cancelled has status full if its availableSeats is 0 or less and     *)
(* status active if its availableSeats is positive.                         *)
C14_StatusFollowsCapacity ==
    (Quiescent /\ ride.exists /\ ride.status \notin {"completed", "cancelled"})
    => ride.status = (IF ride.availableSeats <= 0 THEN "full" ELSE "active")

C16_RefundPolicy ==
    (calc.fn = "calculateRefund" /\ calc.applied = 1
       /\ calc.booking.status = "cancelled")
    => calc.refund =
          (IF calc.hoursToDeparture > 24 THEN calc.booking.totalPrice
           ELSE IF calc.hoursToDeparture > 2 THEN calc.booking.totalPrice \div 2
           ELSE 0)

C19_RateOncePerDirection ==
    [][resp'.op = "submitRating" /\ nreq' # nreq =>
       \A i \in Slots, u \in Users, b \in BookingIds, rating \in Ratings,
         ratedUserType \in RatedUserTypes :
          (/\ rating \in MinRating..MaxRating
           /\ b <= Len(bookings) /\ ride.status = "completed"
           /\ \/ ratedUserType = "driver" /\ u = bookings[b].passenger
              \/ ratedUserType = "rider" /\ u = ride.driver
           /\ SubmitRating(i, u, b, rating, ratedUserType))
          => LET stored == IF ratedUserType = "driver"
                           THEN bookings[b].driverRating
                           ELSE bookings[b].passengerRating
                 after  == IF ratedUserType = "driver"
                           THEN bookings'[b].driverRating
                           ELSE bookings'[b].passengerRating
             IN  IF stored = NoRating
                 THEN resp'.code = 200 /\ after = rating
                 ELSE resp'.kind = "AlreadyRated" /\ after = stored]_vars

(* C20: updateStatus applied to the result of updateStatus leaves the       *)
(* status as it is, for every ride snapshot.                                *)
C20_UpdateStatusIdempotent ==
    [][(ApplyUpdateStatus /\ calc.applied = 1)
          => calc'.ride.status = calc.ride.status]_vars

C20_Witness ==
    /\ calc.fn = "updateStatus" /\ calc.applied = 2
    /\ calc.arg.status = "full" /\ calc.ride.status = "completed"

(* C21: updateStatus applied to a ride whose departure is in the past and  *)
(* whose status is active or full sets the status to completed.             *)
C21_PastRideCompleted ==
    [][(ApplyUpdateStatus /\ calc.applied = 0 /\ calc.past
          /\ calc.ride.status \in {"active", "full"})
          => calc'.ride.status = "completed"]_vars

(* C22: every booking that bookRide creates is created with status          *)
(* confirmed and with totalPrice equal to its seatsBooked times the ride's  *)
(* pricePerSeat, and that product stays its totalPrice; so it is for the    *)
(* booking of every bookRide that answers with success.                     *)
C22_BookingPriceAndStatus ==
    /\ [](\A b \in 1..Len(bookings) :
             bookings[b].totalPrice = bookings[b].seatsBooked * ride.pricePerSeat)
    /\ [][\A i \in Slots :
            (reqs[i].op = "bookRide" /\ BookRideInsert(i)
               /\ Len(bookings') > Len(bookings))
            => LET b == bookings'[Len(bookings')]
               IN  /\ b.status = "confirmed"
                   /\ b.totalPrice = b.seatsBooked * ride.pricePerSeat]_vars

C22_Witness ==
    /\ Quiescent /\ resp.op = "bookRide" /\ resp.code = 200
    /\ bookings[resp.bid].seatsBooked = 2
    /\ bookings[resp.bid].totalPrice = 200

C24_DomainErrorsAreClientErrors ==
    (resp.op = "bookRide" /\ resp.code = 500)
    => resp.kind \notin {"DuplicateKey", "HookNotEnoughSeats",
                         "HookRideNotActive", "HookRideNotFound"}

(* C26: when no request is in progress, the roster entries with status     *)
(* confirmed or pending and the bookings with status confirmed or pending   *)
(* correspond one to one, with the same passenger and the same seats.       *)
C26_RosterLockStep ==
    (Quiescent /\ ride.exists) =>
    /\ \A k \in 1..Len(ride.passengers) :
          ride.passengers[k].status \in ActiveStatuses
          => /\ ride.passengers[k].booking \in 1..Len(bookings)
             /\ LET b == bookings[ride.passengers[k].booking]
                IN  /\ b.status \in ActiveStatuses
                    /\ b.passenger = ride.passengers[k].user
                    /\ b.seatsBooked = ride.passengers[k].seats
    /\ \A b \in 1..Len(bookings) :
          bookings[b].status \in ActiveStatuses
          => Cardinality({k \in 1..Len(ride.passengers) :
                            /\ ride.passengers[k].booking = b
                            /\ ride.passengers[k].status \in ActiveStatuses}) = 1

(* C30: a bookRide by the ride's driver is rejected with a client error,    *)
(* creates no booking and leaves the ride unchanged; the driver is never    *)
(* the passenger of a booking nor the user of a roster entry.               *)
C30_DriverCannotBookOwnRide ==
    /\ [](/\ \A b \in 1..Len(bookings) : bookings[b].passenger # Driver
          /\ \A k \in 1..Len(ride.passengers) : ride.passengers[k].user # Driver)
    /\ [][\A i \in Slots, s \in SeatRequests, pp \in BOOLEAN :
            BookRideStart(i, Driver, s, pp)
            => /\ resp'.op = "bookRide" /\ resp'.code \in {400, 404}
               /\ UNCHANGED <<ride, bookings, reqs>>]_vars

(* C30 witness: the driver's request for seats that an active ride has left *)
(* has just been refused as a booking of the own ride.                      *)
C30_Witness ==
    /\ resp.op = "bookRide" /\ resp.kind = "OwnRide"
    /\ ride.exists /\ ride.status = "active" /\ bookings # <<>>

(* C29: a save of an existing booking that neither creates nor cancels it  *)
(* leaves the ride's availableSeats and roster unchanged, and so does a     *)
(* submitRating request.                                                    *)
C29_SaveLeavesInventory ==
    [][/\ ApplySaveBooking
          => /\ calc'.ride.availableSeats = calc.ride.availableSeats
             /\ calc'.ride.passengers = calc.ride.passengers
       /\ (\E i \in Slots, u \in Users, b \in BookingIds, rating \in Ratings,
              t \in RatedUserTypes : SubmitRating(i, u, b, rating, t))
          => UNCHANGED ride]_vars

C28_AlwaysNotAuthorized ==
    [][/\ \A i \in Slots, u \in Users, b \in BookingIds :
            (/\ b <= Len(bookings) /\ bookings[b].passenger # u
             /\ CancelBookingStart(i, u, b))
            => /\ resp'.kind = "NotAuthorized" /\ resp'.op = "cancelBooking"
               /\ UNCHANGED <<ride, bookings, reqs>>
       /\ \A i \in Slots, u \in Users :
            (/\ ride.exists /\ ride.driver # u
             /\ CancelRideStart(i, u))
            => /\ resp'.kind = "NotAuthorized" /\ resp'.op = "cancelRide"
               /\ UNCHANGED <<ride, bookings, reqs>>
       /\ \A i \in Slots, u \in Users, st \in StatusInputs :
            (/\ ride.exists /\ ride.driver # u
             /\ UpdateRideStatusStart(i, u, st))
            => /\ resp'.kind = "NotAuthorized" /\ resp'.op = "updateRideStatus"
               /\ UNCHANGED <<ride, bookings, reqs>>]_vars

(* C28 amended: such a request is rejected and changes no booking and no    *)
(* ride; the answer is not authorized, except invalid status when the       *)
(* status asked of updateRideStatus is not one it accepts, and not found    *)
(* when the ride is cancelled, which the find no longer returns.            *)
C28_NonOwnerRejected ==
    [][/\ \A i \in Slots, u \in Users, b \in BookingIds :
            (/\ b <= Len(bookings) /\ bookings[b].passenger # u
             /\ CancelBookingStart(i, u, b))
            => /\ resp'.kind = "NotAuthorized" /\ resp'.op = "cancelBooking"
               /\ UNCHANGED <<ride, bookings, reqs>>
       /\ \A i \in Slots, u \in Users :
            (/\ ride.exists /\ ride.driver # u
             /\ CancelRideStart(i, u))
            => /\ resp'.kind = (IF ride.status = "cancelled" THEN "RideNotFound"
                               ELSE "NotAuthorized") /\ resp'.op = "cancelRide"
               /\ UNCHANGED <<ride, bookings, reqs>>
       /\ \A i \in Slots, u \in Users, st \in StatusInputs :
            (/\ ride.exists /\ ride.driver # u
             /\ UpdateRideStatusStart(i, u, st))
            => /\ resp'.kind = (IF st \notin {"active", "completed", "cancelled"}
                               THEN "InvalidStatus"
                               ELSE IF ride.status = "cancelled" THEN "RideNotFound"
                               ELSE "NotAuthorized") /\ resp'.op = "updateRideStatus"
               /\ UNCHANGED <<ride, bookings, reqs>>]_vars

(* C28 witness: in the reading where the owner passes the test, a          *)
(* cancelBooking on a confirmed booking has just been refused as not        *)
(* authorized, so it came from another user.                                *)
C28_Witness ==
    /\ populatedAsId
    /\ resp.op = "cancelBooking" /\ resp.kind = "NotAuthorized"
    /\ resp.bid <= Len(bookings) /\ bookings[resp.bid].status = "confirmed"

(* C25: every ride that searchRides returns has status active, is not      *)
(* driven by the requester, has at least the requested number of            *)
(* availableSeats and at least 1, and matches the origin and the            *)
(* destination text asked; the rides are returned by match score, highest   *)
(* first.                                                                   *)
C25_SearchResults ==
    [][ApplySearchRides =>
         LET q     == calc.query
             found == calc'.found
         IN  \A k \in 1..Len(found) :
                /\ found[k].ride.status = "active"
                /\ found[k].ride.driver # q.user
                /\ found[k].ride.availableSeats >= 1
                /\ q.seats # "" => found[k].ride.availableSeats >= parseInt(q.seats)
                /\ enhancedFuzzyMatch(q.from, found[k].ride.from)
                /\ enhancedFuzzyMatch(q.to, found[k].ride.to)
                /\ k < Len(found) => found[k].matchScore >= found[k + 1].matchScore]_vars

====
